---- MODULE Spec2Model ----
(***************************************************************************)
(* A model of the vouch-py extension (src/src/lib.rs):                     *)
(*   - identify_dependency_files, the upward walk for Pipfile.lock, and    *)
(*     its caller identify_file_defined_dependencies;                      *)
(*   - get_latest_version, the choice of the latest release key;           *)
(*   - get_archive_url, the scan of a release list for the sdist;          *)
(*   - registries_package_metadata, which composes the last two with two   *)
(*     fetches of the registry document.                                   *)
(* Strings whose characters matter (version strings) are sequences of      *)
(* one-character strings; JSON values are tagged records.                  *)
(***************************************************************************)
EXTENDS Integers, Sequences, FiniteSets, TLC

VARIABLES
    op,                 \* the operation in progress, "none" when idle
    pc,                 \* the position inside the operation
    fs,                 \* the file system: kind of the entry at each target path
    start,              \* identify_*: the working_directory argument
    working_directory,  \* identify_dependency_files: the loop's directory
    examined,           \* the directories the loop has checked, in order
    located,            \* the value identify_dependency_files returned
    parsed,             \* the lockfile paths handed to pipfile::get_dependencies
    registry,           \* what the registry serves at this moment
    arg_version,        \* registries_package_metadata: the package_version argument
    package_version,    \* the resolved version (line 74), an Option
    fetched,            \* the documents get_registry_entry_json returned, in order
    latest_calls,       \* how many times get_latest_version ran in this call
    stages,             \* the steps of registries_package_metadata that ran
    changed,            \* whether the registry content changed during the call
    all_dependency_specs, \* identify_file_defined_dependencies: its accumulator
    ret                 \* the operation's return value

vars == <<op, pc, fs, start, working_directory, examined, located, parsed,
          registry, arg_version, package_version, fetched, latest_calls,
          stages, changed, all_dependency_specs, ret>>

-----------------------------------------------------------------------------
(* Option and Result values.                                               *)

None == [some |-> FALSE]
Some(x) == [some |-> TRUE, v |-> x]
Ok(x) == [t |-> "ok", v |-> x]
Err(e) == [t |-> "err", err |-> e]
Nil == [t |-> "nil"]
Panic == [t |-> "panic"]

-----------------------------------------------------------------------------
(* Bounds of the model.                                                    *)

MaxDepth == 2
MaxList == 2
MaxKeys == 2

-----------------------------------------------------------------------------
(* Paths.  A PathBuf is its absolute flag and its components.              *)

Path(abs, comps) == [absolute |-> abs, components |-> comps]

RootPath == Path(TRUE, <<>>)

is_absolute(p) == p.absolute

join(p, name) == Path(p.absolute, Append(p.components, name))

\* A pop that leaves the path as it is.
pop_stuck(p) == p

pop(p) ==
    IF p.components = <<>> THEN p
    ELSE Path(p.absolute, SubSeq(p.components, 1, Len(p.components) - 1))

DependencyFileTypes == <<"PipfileLock">>

file_name(type) == CASE type = "PipfileLock" -> "Pipfile.lock"

DependencyFile(type, path) == [type |-> type, path |-> path]

\* The directories of the modelled tree: only directories named "a" have
\* children, and every directory has the children "a" and "b".
RECURSIVE Chain(_)
Chain(n) == IF n = 0 THEN <<>> ELSE Append(Chain(n - 1), "a")

DirComponents ==
    {<<>>} \cup { Append(Chain(n), x) : n \in 0..(MaxDepth - 1), x \in {"a", "b"} }

AbsoluteDirs == { Path(TRUE, c) : c \in DirComponents }

RelativeDirs == { Path(FALSE, <<"a">>) }

TargetPaths ==
    { join(d, file_name(DependencyFileTypes[i])) :
        d \in AbsoluteDirs, i \in 1..Len(DependencyFileTypes) }

\* What a target path is on disk: a regular file, a directory, or nothing.
EntryKinds == {"file", "dir", "none"}

FileSystems == [TargetPaths -> EntryKinds]

\* An existence test in place of the regular-file test.
exists(filesystem, p) == p \in DOMAIN filesystem /\ filesystem[p] # "none"

is_file(filesystem, p) == p \in DOMAIN filesystem /\ filesystem[p] = "file"

-----------------------------------------------------------------------------
(* Version strings and semver::Version.                                    *)

DigitChars == <<"0", "1", "2", "3", "4", "5", "6", "7", "8", "9">>

AsciiDigits == { DigitChars[i] : i \in 1..Len(DigitChars) }

\* A character that char::is_numeric accepts and that is no ASCII digit
\* (ARABIC-INDIC DIGIT THREE).
OtherNumerics == {"U+0663"}

is_numeric(c) == c \in AsciiDigits \cup OtherNumerics

DigitValue(c) == (CHOOSE i \in 1..Len(DigitChars) : DigitChars[i] = c) - 1

\* The filter of line 111.
only_numeric_or_dot(v) == \A i \in 1..Len(v) : is_numeric(v[i]) \/ v[i] = "."

\* v split at every ".", as a sequence of sequences.
RECURSIVE SplitDots(_)
SplitDots(v) ==
    IF \A i \in 1..Len(v) : v[i] # "." THEN <<v>>
    ELSE LET k == CHOOSE i \in 1..Len(v) :
                      v[i] = "." /\ \A j \in 1..(i - 1) : v[j] # "."
         IN <<SubSeq(v, 1, k - 1)>> \o SplitDots(SubSeq(v, k + 1, Len(v)))

RECURSIVE DigitsValue(_)
DigitsValue(d) ==
    IF d = <<>> THEN 0
    ELSE 10 * DigitsValue(SubSeq(d, 1, Len(d) - 1)) + DigitValue(d[Len(d)])

\* A numeric identifier of a semantic version: ASCII digits, not empty, no
\* leading zero.
IsNumericIdentifier(d) ==
    /\ d # <<>>
    /\ \A i \in 1..Len(d) : d[i] \in AsciiDigits
    /\ (Len(d) > 1 => d[1] # "0")

Version(major, minor, patch) == [major |-> major, minor |-> minor, patch |-> patch]

\* A parse that takes major.minor for major.minor.0.
VersionParse_lenient(v) ==
    LET parts == SplitDots(v)
    IN IF /\ Len(parts) \in {2, 3}
          /\ \A i \in 1..Len(parts) : IsNumericIdentifier(parts[i])
       THEN Ok(Version(DigitsValue(parts[1]), DigitsValue(parts[2]),
                       IF Len(parts) = 3 THEN DigitsValue(parts[3]) ELSE 0))
       ELSE Err("semver parse error")

\* semver::Version::parse on a string: major.minor.patch, then an optional
\* pre-release after "-" and build metadata after "+".
VersionParse(v) ==
    LET parts == SplitDots(v)
    IN IF /\ \A i \in 1..Len(v) : v[i] \notin {"-", "+"}
          /\ Len(parts) = 3
          /\ \A i \in 1..3 : IsNumericIdentifier(parts[i])
       THEN Ok(Version(DigitsValue(parts[1]), DigitsValue(parts[2]),
                       DigitsValue(parts[3])))
       ELSE Err("semver parse error")

\* The digits of x before those of y, as text.
TextLess(x, y) ==
    LET dx == IF x < 10 THEN <<x>> ELSE <<x \div 10, x % 10>>
        dy == IF y < 10 THEN <<y>> ELSE <<y \div 10, y % 10>>
    IN \/ dx[1] < dy[1]
       \/ dx[1] = dy[1] /\ Len(dx) < Len(dy)
       \/ dx[1] = dy[1] /\ Len(dx) = 2 /\ Len(dy) = 2 /\ dx[2] < dy[2]

\* An order that compares the components as text.
VersionLess_text(a, b) ==
    \/ TextLess(a.major, b.major)
    \/ a.major = b.major /\ TextLess(a.minor, b.minor)
    \/ a.major = b.major /\ a.minor = b.minor /\ TextLess(a.patch, b.patch)

\* Ord for semver::Version (the pre-release of every version here is empty).
VersionLess(a, b) ==
    \/ a.major < b.major
    \/ a.major = b.major /\ a.minor < b.minor
    \/ a.major = b.major /\ a.minor = b.minor /\ a.patch < b.patch

RECURSIVE ToDigits(_)
ToDigits(n) ==
    IF n < 10 THEN <<DigitChars[n + 1]>>
    ELSE Append(ToDigits(n \div 10), DigitChars[(n % 10) + 1])

\* Display for semver::Version.
VersionToString(ver) ==
    ToDigits(ver.major) \o <<".">> \o ToDigits(ver.minor) \o <<".">> \o ToDigits(ver.patch)

\* Vec::sort on the collected versions.
RECURSIVE SortVersions(_)
SortVersions(S) ==
    IF S = {} THEN <<>>
    ELSE LET least == CHOOSE x \in S : \A y \in S : ~VersionLess(y, x)
         IN <<least>> \o SortVersions(S \ {least})

\* slice::last.
last(s) == IF s = <<>> THEN None ELSE Some(s[Len(s)])

\* The version strings of the model.
V_1_0_0 == <<"1", ".", "0", ".", "0">>
V_1_2_0 == <<"1", ".", "2", ".", "0">>
V_1_2_0rc1 == <<"1", ".", "2", ".", "0", "r", "c", "1">>
V_abc == <<"a", "b", "c">>
V_2_0 == <<"2", ".", "0">>
V_rc1 == <<"r", "c", "1">>
V_beta == <<"b", "e", "t", "a">>
V_empty == <<>>
V_1_9_0 == <<"1", ".", "9", ".", "0">>
V_1_10_0 == <<"1", ".", "1", "0", ".", "0">>
V_01_3_0 == <<"0", "1", ".", "3", ".", "0">>
V_u3_0_0 == <<"U+0663", ".", "0", ".", "0">>

VersionStrings ==
    {V_1_0_0, V_1_2_0, V_1_2_0rc1, V_abc, V_2_0, V_rc1, V_beta, V_empty,
     V_1_9_0, V_1_10_0, V_01_3_0, V_u3_0_0}

-----------------------------------------------------------------------------
(* JSON values (serde_json::Value) and URLs.                               *)

JNull == [j |-> "null"]
JString(s) == [j |-> "string", s |-> s]
JArray(a) == [j |-> "array", a |-> a]
JObject(f) == [j |-> "object", f |-> f]

\* Value's Index: Null when the value is no object or lacks the key.
Index(value, key) ==
    IF value.j = "object" /\ key \in DOMAIN value.f THEN value.f[key] ELSE JNull

as_str(value) == IF value.j = "string" THEN Some(value.s) ELSE None
as_array(value) == IF value.j = "array" THEN Some(value.a) ELSE None
as_object(value) == IF value.j = "object" THEN Some(value.f) ELSE None

SDIST_URL == "https://files.pythonhosted.org/packages/numpy-1.18.5.zip"
WHEEL_URL == "https://files.pythonhosted.org/packages/numpy-1.18.5-cp38.whl"
UPPER_URL == "HTTPS://FILES.pythonhosted.org/packages/numpy-1.18.4.zip"
LOWER_URL == "https://files.pythonhosted.org/packages/numpy-1.18.4.zip"
RELATIVE_URL == "packages/numpy-1.18.5.zip"

\* url::Url::parse: the URLs of the model with their serialization (scheme
\* and host in lower case); a string with no scheme is an error.
UrlParse(s) ==
    CASE s \in {SDIST_URL, WHEEL_URL, LOWER_URL} -> Ok([url |-> s])
      [] s = UPPER_URL -> Ok([url |-> LOWER_URL])
      [] OTHER -> Err("url parse error")

-----------------------------------------------------------------------------
(* The registry and its metadata document.                                 *)

\* get_registry_entry_json on what the registry serves: a transport failure,
\* a body that is no JSON, or the parsed document.
get_registry_entry_json(served) ==
    CASE served.kind = "down" -> Err("request failed")
      [] served.kind = "text" ->
            Err(<<"JSON was not well-formatted:", served.body>>)
      [] served.kind = "json" -> Ok(served.doc)

\* Lines 106-119 of get_latest_version, on the result of its fetch (line 105).
get_latest_version(fetch) ==
    IF fetch.t = "err" THEN fetch
    ELSE LET releases == as_object(Index(fetch.v, "releases"))
         IN IF ~releases.some THEN Err("Failed to find releases JSON section.")
            ELSE LET keys == DOMAIN releases.v
                     versions ==
                         { VersionParse(v).v :
                             v \in { k \in keys : /\ only_numeric_or_dot(k)
                                                  /\ VersionParse(k).t = "ok" } }
                     latest_version == last(SortVersions(versions))
                 IN Ok(IF latest_version.some
                       THEN Some(VersionToString(latest_version.v))
                       ELSE None)

\* A loop with the test of line 165 inverted.
RECURSIVE ScanReleases_not_source(_, _)
ScanReleases_not_source(releases, i) ==
    IF i > Len(releases) THEN Err("Failed to identify package archive URL.")
    ELSE LET python_version == as_str(Index(releases[i], "python_version"))
         IN IF ~python_version.some THEN Err("Failed to parse package version.")
            ELSE IF python_version.v # "source"
            THEN LET url == as_str(Index(releases[i], "url"))
                 IN IF ~url.some THEN Err("Failed to parse package archive URL.")
                    ELSE UrlParse(url.v)
            ELSE ScanReleases_not_source(releases, i + 1)

\* A loop that passes over an entry whose python_version is no string.
RECURSIVE ScanReleases_lenient(_, _)
ScanReleases_lenient(releases, i) ==
    IF i > Len(releases) THEN Err("Failed to identify package archive URL.")
    ELSE LET python_version == as_str(Index(releases[i], "python_version"))
         IN IF python_version.some /\ python_version.v = "source"
            THEN LET url == as_str(Index(releases[i], "url"))
                 IN IF ~url.some THEN Err("Failed to parse package archive URL.")
                    ELSE UrlParse(url.v)
            ELSE ScanReleases_lenient(releases, i + 1)

\* The loop of get_archive_url from entry i on.
RECURSIVE ScanReleases(_, _)
ScanReleases(releases, i) ==
    IF i > Len(releases) THEN Err("Failed to identify package archive URL.")
    ELSE LET python_version == as_str(Index(releases[i], "python_version"))
         IN IF ~python_version.some THEN Err("Failed to parse package version.")
            ELSE IF python_version.v = "source"
            THEN LET url == as_str(Index(releases[i], "url"))
                 IN IF ~url.some THEN Err("Failed to parse package archive URL.")
                    ELSE UrlParse(url.v)
            ELSE ScanReleases(releases, i + 1)

get_archive_url(registry_entry_json, version) ==
    LET releases == as_array(Index(Index(registry_entry_json, "releases"), version))
    IN IF ~releases.some THEN Err("Failed to parse releases array.")
       ELSE ScanReleases(releases.v, 1)

PackageName == <<"n", "u", "m", "p", "y">>

\* get_registry_human_url: the template of line 24 rendered, then parsed.
\* The rendered string has the scheme and host of the template, so it parses.
get_registry_human_url(package_name, version) ==
    Ok([url |-> <<"https://pypi.org/pypi/">> \o package_name \o <<"/">>
                    \o version \o <<"/">>])

registry_host_names == <<"pypi.org">>

-----------------------------------------------------------------------------
(* The inputs of the model.                                                *)

PythonVersionValues == {JString("source"), JString("cp38"), JNull}

UrlValues == {JString(SDIST_URL), JString(UPPER_URL), JString(RELATIVE_URL), JNull}

ReleaseEntries ==
    { JObject([python_version |-> pv, url |-> u]) :
        pv \in PythonVersionValues, u \in UrlValues }

ReleaseLists == UNION { [1..n -> ReleaseEntries] : n \in 0..MaxList }

Sdist == JObject([python_version |-> JString("source"), url |-> JString(SDIST_URL)])
Wheel == JObject([python_version |-> JString("cp38"), url |-> JString(WHEEL_URL)])

Down == [kind |-> "down"]
Text == [kind |-> "text", body |-> "<html>Not Found</html>"]
Json(doc) == [kind |-> "json", doc |-> doc]

DocWithoutReleases == JObject([info |-> JNull])
DocWithReleases(f) == JObject([info |-> JNull, releases |-> JObject(f)])

\* The candidate sets of the two examples of spec section 8.
ExampleCandidates == {V_1_0_0, V_1_2_0, V_1_2_0rc1, V_abc, V_2_0}
ExampleNoCandidate == {V_rc1, V_beta, V_empty}

\* get_latest_version: every set of release keys.
LatestRegistries ==
    {Down, Text, Json(DocWithoutReleases)}
    \cup { Json(DocWithReleases([k \in K |-> JArray(<<>>)])) : K \in SUBSET VersionStrings }

\* get_archive_url: every release list for one version.
ArchiveDocs ==
    {DocWithoutReleases, DocWithReleases([k \in {V_1_2_0} |-> JNull])}
    \cup { DocWithReleases([k \in {V_1_2_0} |-> JArray(l)]) : l \in ReleaseLists }

ArchiveVersions == {V_1_2_0, V_1_0_0}

\* registries_package_metadata: small key sets, the same release value
\* under every key.
ResolveKeySets ==
    { K \in SUBSET VersionStrings : Cardinality(K) <= MaxKeys }
    \cup {ExampleCandidates, ExampleNoCandidate}

ResolveReleaseValues ==
    {JNull, JArray(<<>>), JArray(<<Wheel>>), JArray(<<Wheel, Sdist>>)}

ResolveRegistries ==
    {Down, Text, Json(DocWithoutReleases)}
    \cup { Json(DocWithReleases([k \in K |-> r])) :
             K \in ResolveKeySets, r \in ResolveReleaseValues }

ResolveVersions == {None, Some(V_1_2_0), Some(V_2_0), Some(V_abc)}

\* What the registry may serve after a change: one version yanked, one
\* version published, or an outage.
RegistryAfterChange(served) ==
    {Down} \cup
    IF served.kind = "json" /\ Index(served.doc, "releases").j = "object"
    THEN LET f == Index(served.doc, "releases").f
         IN { Json(DocWithReleases([k \in (DOMAIN f) \ {y} |-> f[k]])) : y \in DOMAIN f }
            \cup { Json(DocWithReleases([k \in (DOMAIN f) \cup {n} |->
                         IF k \in DOMAIN f THEN f[k] ELSE JArray(<<Sdist>>)])) :
                     n \in VersionStrings \ DOMAIN f }
    ELSE {}

\* pipfile::get_dependencies and pipfile::get_registry_host_name (src/pipfile.rs
\* is not part of the sources): the parse yields the dependencies or fails.
pipfile_get_dependencies == {Ok({"dependencies"}), Err("MalformedInput")}
pipfile_get_registry_host_name == "pypi.org"

-----------------------------------------------------------------------------
(* The state machine.                                                      *)

NoFileSystem == [p \in TargetPaths |-> "none"]

Init ==
    /\ op = "none"
    /\ pc = "idle"
    /\ fs = NoFileSystem
    /\ start = RootPath
    /\ working_directory = RootPath
    /\ examined = <<>>
    /\ located = Nil
    /\ parsed = <<>>
    /\ registry = Down
    /\ arg_version = None
    /\ package_version = None
    /\ fetched = <<>>
    /\ latest_calls = 0
    /\ stages = {}
    /\ changed = FALSE
    /\ all_dependency_specs = <<>>
    /\ ret = Nil

locatorVars == <<fs, start, working_directory, examined, located, parsed,
                 all_dependency_specs>>
registryVars == <<registry, arg_version, package_version, fetched, latest_calls,
                  stages, changed>>

\* identify_file_defined_dependencies is called (line 38) and calls
\* identify_dependency_files, whose assertion (line 204) fails on a relative path.
Call_identify_file_defined_dependencies ==
    /\ op = "none"
    /\ \E filesystem \in FileSystems, dir \in AbsoluteDirs \cup RelativeDirs :
        /\ op' = "identify"
        /\ fs' = filesystem
        /\ start' = dir
        /\ working_directory' = dir
        /\ IF is_absolute(dir)
           THEN pc' = "loop" /\ ret' = Nil
           ELSE pc' = "done" /\ ret' = Panic
    /\ UNCHANGED <<examined, located, parsed, all_dependency_specs>>
    /\ UNCHANGED registryVars

\* The files of line 211-221 at one directory, in the order of the types.
RECURSIVE FilesAt(_, _, _)
FilesAt(filesystem, dir, i) ==
    IF i > Len(DependencyFileTypes) THEN <<>>
    ELSE LET target_absolute_path == join(dir, file_name(DependencyFileTypes[i]))
         IN (IF is_file(filesystem, target_absolute_path)
             THEN <<DependencyFile(DependencyFileTypes[i], target_absolute_path)>>
             ELSE <<>>) \o FilesAt(filesystem, dir, i + 1)

\* Line 46: what identify_file_defined_dependencies returns when
\* identify_dependency_files returned None.
\* An error in place of the empty list.
NotFoundResult_error == Err("NotFound")

NotFoundResult == Ok(<<>>)

\* One iteration of the loop of identify_dependency_files (lines 207-233).
\* On Some(v) the caller goes on to read the files; on None it returns
\* Ok(Vec::new()) (line 46).
LoopIteration ==
    /\ op = "identify" /\ pc = "loop"
    /\ examined' = Append(examined, working_directory)
    /\ LET dependency_files == FilesAt(fs, working_directory, 1)
       IN IF dependency_files # <<>>
          THEN /\ located' = Some(dependency_files)
               /\ pc' = "read"
               /\ UNCHANGED <<working_directory, ret>>
          ELSE IF working_directory = RootPath
          THEN /\ located' = None
               /\ pc' = "done"
               /\ ret' = NotFoundResult
               /\ UNCHANGED working_directory
          ELSE /\ working_directory' = pop(working_directory)
               /\ UNCHANGED <<located, pc, ret>>
    /\ UNCHANGED <<op, fs, start, parsed, all_dependency_specs>>
    /\ UNCHANGED registryVars

\* One iteration of the loop of lines 51-64, and the return of line 66 after
\* the last file.
ReadDependencyFile ==
    /\ op = "identify" /\ pc = "read"
    /\ LET dependency_file == located.v[Len(parsed) + 1]
       IN /\ parsed' = Append(parsed, dependency_file.path)
          /\ \E dependencies \in pipfile_get_dependencies :
               IF dependencies.t = "err"
               THEN /\ ret' = dependencies
                    /\ pc' = "done"
                    /\ UNCHANGED all_dependency_specs
               ELSE LET specs == Append(all_dependency_specs,
                                   [path |-> dependency_file.path,
                                    registry_host_name |-> pipfile_get_registry_host_name,
                                    dependencies |-> dependencies.v])
                    IN /\ all_dependency_specs' = specs
                       /\ IF Len(specs) = Len(located.v)
                          THEN pc' = "done" /\ ret' = Ok(specs)
                          ELSE pc' = "read" /\ ret' = Nil
    /\ UNCHANGED <<op, fs, start, working_directory, examined, located>>
    /\ UNCHANGED registryVars

\* A match that resolves the latest version whatever was supplied.
always_latest(version) == [next |-> "latest", package_version |-> None]

\* The match of lines 74-77: a supplied version is taken as it is, without
\* get_latest_version; the result is the next step and the version so far.
version_or_latest(version) ==
    IF version.some
    THEN [next |-> "fetch", package_version |-> Some(version.v)]
    ELSE [next |-> "latest", package_version |-> None]

\* A default in place of the error.
unwrap_or_default(version) == IF version.some THEN Ok(version.v) ELSE Ok(<<>>)

\* Line 78: ok_or on the Option of the version.
ok_or_version_not_found(version) ==
    IF version.some THEN Ok(version.v) ELSE Err("Failed to find package version.")

\* registries_package_metadata is called (line 69).
Call_registries_package_metadata ==
    /\ op = "none"
    /\ \E served \in ResolveRegistries, version \in ResolveVersions :
        /\ op' = "resolve"
        /\ registry' = served
        /\ arg_version' = version
        /\ pc' = version_or_latest(version).next
        /\ package_version' = version_or_latest(version).package_version
    /\ UNCHANGED <<fetched, latest_calls, stages, changed, ret>>
    /\ UNCHANGED locatorVars

\* Lines 76-78: no version was supplied; get_latest_version fetches the
\* document (line 105) and picks the version.
SelectLatestVersion ==
    /\ op = "resolve" /\ pc = "latest"
    /\ LET fetch == get_registry_entry_json(registry)
           latest == get_latest_version(fetch)
       IN /\ fetched' = Append(fetched, fetch)
          /\ latest_calls' = latest_calls + 1
          /\ IF latest.t = "err"
             THEN pc' = "done" /\ ret' = latest /\ UNCHANGED package_version
             ELSE LET version == ok_or_version_not_found(latest.v)
                  IN IF version.t = "err"
                     THEN pc' = "done" /\ ret' = version /\ UNCHANGED package_version
                     ELSE /\ pc' = "fetch"
                          /\ package_version' = Some(version.v)
                          /\ UNCHANGED ret
    /\ UNCHANGED <<op, registry, arg_version, stages, changed>>
    /\ UNCHANGED locatorVars

\* The registry content changes while the call runs, between its statements.
RegistryChange ==
    /\ op = "resolve" /\ pc = "fetch" /\ ~changed
    /\ \E served \in RegistryAfterChange(registry) : registry' = served
    /\ changed' = TRUE
    /\ UNCHANGED <<op, pc, arg_version, package_version, fetched, latest_calls,
                   stages, ret>>
    /\ UNCHANGED locatorVars

\* The record of lines 93-99.
RegistryPackageMetadata(registry_host_name, human_url, artifact_url, version) ==
    [registry_host_name |-> registry_host_name,
     human_url |-> human_url.url,
     artifact_url |-> artifact_url.url,
     is_primary |-> TRUE,
     package_version |-> version]

\* Lines 81-99: the host name, the fetch of line 89, the archive URL, the
\* human URL and the record.
FetchAndAssemble ==
    /\ op = "resolve" /\ pc = "fetch"
    /\ LET registry_host_name == registry_host_names[1]
           entry_json == get_registry_entry_json(registry)
       IN /\ fetched' = Append(fetched, entry_json)
          /\ IF entry_json.t = "err"
             THEN ret' = entry_json /\ UNCHANGED stages
             ELSE LET artifact_url == get_archive_url(entry_json.v, package_version.v)
                  IN IF artifact_url.t = "err"
                     THEN ret' = artifact_url /\ stages' = stages \cup {"archive"}
                     ELSE LET human_url ==
                                  get_registry_human_url(PackageName, package_version.v)
                          IN /\ stages' = stages \cup {"archive", "human"}
                             /\ ret' = IF human_url.t = "err" THEN human_url
                                       ELSE Ok(<<RegistryPackageMetadata(
                                                   registry_host_name, human_url.v,
                                                   artifact_url.v, package_version.v)>>)
    /\ pc' = "done"
    /\ UNCHANGED <<op, registry, arg_version, package_version, latest_calls, changed>>
    /\ UNCHANGED locatorVars

\* get_latest_version on its own: the fetch of line 105 and the choice.
Call_get_latest_version ==
    /\ op = "none"
    /\ \E served \in LatestRegistries :
        /\ registry' = served
        /\ fetched' = <<get_registry_entry_json(served)>>
        /\ ret' = get_latest_version(get_registry_entry_json(served))
    /\ op' = "latest"
    /\ pc' = "done"
    /\ latest_calls' = 1
    /\ UNCHANGED <<arg_version, package_version, stages, changed>>
    /\ UNCHANGED locatorVars

\* get_archive_url on its own, on a document and a version.
Call_get_archive_url ==
    /\ op = "none"
    /\ \E doc \in ArchiveDocs, version \in ArchiveVersions :
        /\ registry' = Json(doc)
        /\ fetched' = <<Ok(doc)>>
        /\ package_version' = Some(version)
        /\ ret' = get_archive_url(doc, version)
    /\ op' = "archive"
    /\ pc' = "done"
    /\ UNCHANGED <<arg_version, latest_calls, stages, changed>>
    /\ UNCHANGED locatorVars

\* The operation has returned; the next call starts from scratch.
Return ==
    /\ op # "none" /\ pc = "done"
    /\ op' = "none"
    /\ pc' = "idle"
    /\ fs' = NoFileSystem
    /\ start' = RootPath
    /\ working_directory' = RootPath
    /\ examined' = <<>>
    /\ located' = Nil
    /\ parsed' = <<>>
    /\ registry' = Down
    /\ arg_version' = None
    /\ package_version' = None
    /\ fetched' = <<>>
    /\ latest_calls' = 0
    /\ stages' = {}
    /\ changed' = FALSE
    /\ all_dependency_specs' = <<>>
    /\ ret' = Nil

Next ==
    \/ Call_identify_file_defined_dependencies
    \/ LoopIteration
    \/ ReadDependencyFile
    \/ Call_registries_package_metadata
    \/ SelectLatestVersion
    \/ RegistryChange
    \/ FetchAndAssemble
    \/ Call_get_latest_version
    \/ Call_get_archive_url
    \/ Return

Spec == Init /\ [][Next]_vars

\* The locator alone; the code is synchronous, so a call in progress runs on.
NextLocator ==
    \/ Call_identify_file_defined_dependencies
    \/ LoopIteration
    \/ ReadDependencyFile
    \/ Return

LocatorSpec ==
    Init /\ [][NextLocator]_vars /\ WF_vars(LoopIteration) /\ WF_vars(ReadDependencyFile)

-----------------------------------------------------------------------------
(* The locator: claims C1, C8 and C9.                                      *)

\* start and its ancestors up to the root.
ChainOf(dir) ==
    { Path(TRUE, SubSeq(dir.components, 1, n)) : n \in 0..Len(dir.components) }

\* The recognized file names that are regular files directly in dir.
LockPathsIn(dir) ==
    { p \in TargetPaths :
        /\ fs[p] = "file"
        /\ Len(p.components) = Len(dir.components) + 1
        /\ SubSeq(p.components, 1, Len(dir.components)) = dir.components }

QualifyingLevels == { d \in ChainOf(start) : LockPathsIn(d) # {} }

NearestLevel ==
    CHOOSE d \in QualifyingLevels :
        \A e \in QualifyingLevels : Len(e.components) <= Len(d.components)

LocatorReturned == op = "identify" /\ is_absolute(start) /\ located # Nil

\* C1: identify_dependency_files returns exactly the recognized dependency
\* files that are direct children of the nearest directory, on the chain from
\* the start up to the root, that holds one; with none on the chain it
\* returns None.
C1_NearestLevelOnly ==
    LocatorReturned =>
        IF QualifyingLevels = {}
        THEN located = None
        ELSE /\ located.some
             /\ { located.v[i].path : i \in 1..Len(located.v) } = LockPathsIn(NearestLevel)
             /\ Len(located.v) = Cardinality(LockPathsIn(NearestLevel))

\* C1's case: the start /a/a holds a directory named Pipfile.lock, /a and /
\* hold the file, and the file of /a is returned.
C1_Witness ==
    /\ LocatorReturned
    /\ start = Path(TRUE, <<"a", "a">>)
    /\ fs[Path(TRUE, <<"a", "a", "Pipfile.lock">>)] = "dir"
    /\ fs[Path(TRUE, <<"a", "Pipfile.lock">>)] = "file"
    /\ fs[Path(TRUE, <<"Pipfile.lock">>)] = "file"
    /\ located = Some(<<DependencyFile("PipfileLock",
                                       Path(TRUE, <<"a", "Pipfile.lock">>))>>)

\* The i-th directory on the way up from the start.
AncestorAt(i) ==
    Path(TRUE, SubSeq(start.components, 1, Len(start.components) - (i - 1)))

C8_Walk ==
    (op = "identify" /\ is_absolute(start)) =>
        /\ Len(examined) <= Len(start.components) + 1
        /\ \A i \in 1..Len(examined) : examined[i] = AncestorAt(i)
        /\ (located = None => examined[Len(examined)] = RootPath)
        /\ (located # Nil /\ start = RootPath /\ LockPathsIn(RootPath) = {}
               => located = None /\ examined = <<RootPath>>)

\* C8: the walk ends for every absolute start: the i-th check is at the
\* (i-1)-th ancestor of the start, there are at most depth + 1 checks, None is
\* returned only after the root was checked, a start at / with no file gives
\* None after the one check at /, and a running loop always returns.
C8_Terminates ==
    /\ []C8_Walk
    /\ ((op = "identify" /\ pc = "loop") ~> (located # Nil))

\* C8's case: started at / with no file there, None after one check.
C8_Witness ==
    /\ op = "identify"
    /\ start = RootPath
    /\ located = None
    /\ examined = <<RootPath>>

\* C9: with no recognized file on the chain the caller gets Ok with an empty
\* list and nothing was parsed; a successful result after a find holds one
\* entry per located file, with that file's path.
C9_NotFoundIsEmptyOk ==
    (op = "identify" /\ is_absolute(start) /\ pc = "done") =>
        /\ (QualifyingLevels = {} => ret = Ok(<<>>) /\ parsed = <<>>)
        /\ (QualifyingLevels # {} /\ ret.t = "ok" =>
               /\ Len(ret.v) = Cardinality(LockPathsIn(NearestLevel))
               /\ { ret.v[i].path : i \in 1..Len(ret.v) } = LockPathsIn(NearestLevel))
        /\ (QualifyingLevels # {} => ret.t \in {"ok", "err"} /\ parsed # <<>>)

\* C9's case: nothing on the chain of /a/a (a lockfile only beside it, at
\* /a/b, and a directory of that name at /a), and the result is Ok(<<>>).
C9_Witness ==
    /\ op = "identify" /\ pc = "done"
    /\ start = Path(TRUE, <<"a", "a">>)
    /\ fs[Path(TRUE, <<"a", "b", "Pipfile.lock">>)] = "file"
    /\ fs[Path(TRUE, <<"a", "Pipfile.lock">>)] = "dir"
    /\ ret = Ok(<<>>)
    /\ parsed = <<>>

-----------------------------------------------------------------------------
(* Latest-version resolution: claims C2, C3 and C4.                        *)

MaxNumber == 11

\* Semantic versions with no pre-release and no build metadata, stated on
\* their own: the strings that render a triple of numbers.
Triples == (0..MaxNumber) \X (0..MaxNumber) \X (0..MaxNumber)

Render(t) == ToDigits(t[1]) \o <<".">> \o ToDigits(t[2]) \o <<".">> \o ToDigits(t[3])

SemVerOf == [v \in VersionStrings |-> { t \in Triples : Render(t) = v }]

OnlyDigitsAndDots(v) == \A i \in 1..Len(v) : v[i] \in AsciiDigits \cup {"."}

Eligible(keys) == { k \in keys : OnlyDigitsAndDots(k) /\ SemVerOf[k] # {} }

TripleOf(k) == CHOOSE t \in SemVerOf[k] : TRUE

Precedes(s, t) ==
    \/ s[1] < t[1]
    \/ s[1] = t[1] /\ s[2] < t[2]
    \/ s[1] = t[1] /\ s[2] = t[2] /\ s[3] < t[3]

\* A run of get_latest_version, alone or as lines 76-78, whose fetch gave a
\* document with a releases object.
LatestRan ==
    /\ op \in {"latest", "resolve"}
    /\ latest_calls = 1
    /\ fetched[1].t = "ok"
    /\ Index(fetched[1].v, "releases").j = "object"

PublishedKeys == DOMAIN Index(fetched[1].v, "releases").f

\* What get_latest_version returned: ret when it ran alone, the resolved
\* version of line 74 inside registries_package_metadata.
LatestResult == IF op = "latest" THEN ret.v ELSE package_version

\* C2 as stated: of "1.0.0", "1.2.0", "1.2.0rc1", "abc" and "2.0" the
\* version 2.0 is selected.
C2_Selects_2_0 ==
    (LatestRan /\ PublishedKeys = ExampleCandidates) => LatestResult = Some(V_2_0)

\* C2 amended: of "1.0.0", "1.2.0", "1.2.0rc1", "abc" and "2.0" the version
\* 1.2.0 is selected; "2.0" has two components, is no semantic version and is
\* dropped like the strings with letters.
C2_Selects_1_2_0 ==
    (LatestRan /\ PublishedKeys = ExampleCandidates) =>
        /\ LatestResult = Some(V_1_2_0)
        /\ Eligible(ExampleCandidates) = {V_1_0_0, V_1_2_0}

\* C2's case: get_latest_version ran on the five candidates.
C2_Witness ==
    /\ op = "latest" /\ LatestRan
    /\ PublishedKeys = ExampleCandidates
    /\ ret = Ok(Some(V_1_2_0))

\* C3: the version returned is an eligible key (only digits and ".", a
\* semantic version) that no eligible key exceeds in (major, minor, patch)
\* order, and there is none exactly when no key is eligible.
C3_MaximumEligible ==
    LatestRan =>
        IF Eligible(PublishedKeys) = {}
        THEN LatestResult = None
        ELSE /\ LatestResult.some
             /\ LatestResult.v \in Eligible(PublishedKeys)
             /\ \A k \in Eligible(PublishedKeys) :
                    ~Precedes(TripleOf(LatestResult.v), TripleOf(k))

\* C3's case: 1.10.0 is chosen over 1.9.0 among keys that also hold a
\* pre-release, a two-component string and a leading zero.
C3_Witness ==
    /\ op = "latest" /\ LatestRan
    /\ {V_1_9_0, V_1_10_0, V_1_2_0rc1, V_2_0, V_01_3_0, V_u3_0_0} \subseteq PublishedKeys
    /\ ret = Ok(Some(V_1_10_0))

\* C4: with no version supplied and no eligible key, the call fails with the
\* version-not-found error after the one fetch, before the archive and the
\* human URL.
C4_VersionNotFound ==
    (op = "resolve" /\ ~arg_version.some /\ LatestRan /\ Eligible(PublishedKeys) = {}) =>
        /\ pc = "done"
        /\ ret = Err("Failed to find package version.")
        /\ stages = {}
        /\ Len(fetched) = 1

\* C4's case: the candidates "rc1", "beta" and "".
C4_Witness ==
    /\ op = "resolve" /\ ~arg_version.some /\ LatestRan
    /\ PublishedKeys = ExampleNoCandidate
    /\ ret = Err("Failed to find package version.")

-----------------------------------------------------------------------------
(* The archive URL and the composed call: claims C5, C6, C7 and C10.       *)

\* The value under releases[version] in the document the archive URL is
\* taken from, and its entries when it is an array.
ReleaseValue == Index(Index(fetched[Len(fetched)].v, "releases"), package_version.v)

ReleaseList == ReleaseValue.a

ArchiveRan == op = "archive" /\ ReleaseValue.j = "array"

IsSource(e) == e.f.python_version = JString("source")
IsBinary(e) == e.f.python_version.j = "string" /\ ~IsSource(e)
IsMalformed(e) == e.f.python_version.j # "string"
HasDownloadUrl(e) == e.f.url.j = "string" /\ e.f.url.s # RELATIVE_URL

\* C5: of a binary entry and a source entry with a download URL, in either
\* order, the source entry's URL is returned.
C5_SourceInEitherOrder ==
    (ArchiveRan /\ Len(ReleaseList) = 2) =>
        \A i \in {1, 2} :
            (IsSource(ReleaseList[i]) /\ HasDownloadUrl(ReleaseList[i])
                /\ IsBinary(ReleaseList[3 - i]))
            => ret = UrlParse(ReleaseList[i].f.url.s)

\* C5's case: the binary entry first, then the source entry.
C5_Witness ==
    /\ ArchiveRan
    /\ ReleaseList =
         <<JObject([python_version |-> JString("cp38"), url |-> JString(UPPER_URL)]),
           JObject([python_version |-> JString("source"), url |-> JString(SDIST_URL)])>>
    /\ ret = Ok([url |-> SDIST_URL])

\* C6: a supplied version is the resolved version as it is, and
\* get_latest_version never runs; with no release list for it in the fetched
\* document the call fails in get_archive_url, before the human URL; a record
\* returned carries the supplied string.
C6_SuppliedVersionVerbatim ==
    (op = "resolve" /\ arg_version.some) =>
        /\ latest_calls = 0
        /\ package_version = arg_version
        /\ pc \in {"fetch", "done"}
        /\ (pc = "done" => Len(fetched) = 1)
        /\ (pc = "done" /\ fetched[1].t = "ok" /\ ReleaseValue.j # "array"
               => ret = Err("Failed to parse releases array.") /\ stages = {"archive"})
        /\ (pc = "done" /\ ret.t = "ok"
               => Len(ret.v) = 1 /\ ret.v[1].package_version = arg_version.v)

\* C6's case: "2.0" is supplied and the registry publishes 1.0.0 and 1.2.0.
C6_Witness ==
    /\ op = "resolve" /\ pc = "done"
    /\ arg_version = Some(V_2_0)
    /\ fetched[1].t = "ok"
    /\ Index(fetched[1].v, "releases").j = "object"
    /\ DOMAIN Index(fetched[1].v, "releases").f = {V_1_0_0, V_1_2_0}
    /\ ret = Err("Failed to parse releases array.")

\* C7: with no version supplied, the document the archive URL is taken from
\* is the document the version was selected from.
C7_OneDocument ==
    (op = "resolve" /\ ~arg_version.some /\ "archive" \in stages) =>
        fetched[Len(fetched)] = fetched[1]

SourceIndexes == { i \in 1..Len(ReleaseList) : IsSource(ReleaseList[i]) }
FirstSource == CHOOSE i \in SourceIndexes : \A j \in SourceIndexes : i <= j
DecisiveIndexes ==
    { i \in 1..Len(ReleaseList) : IsSource(ReleaseList[i]) \/ IsMalformed(ReleaseList[i]) }
FirstDecisive == CHOOSE i \in DecisiveIndexes : \A j \in DecisiveIndexes : i <= j

\* C10: the first entry that is a source distribution or has no string
\* python_version decides the result, whatever follows it; a list with a
\* source entry gives an error exactly when an entry with no string
\* python_version precedes the first source entry or that entry's url is
\* missing or invalid.
C10_FirstDecisiveEntry ==
    ArchiveRan =>
        /\ (DecisiveIndexes = {} => ret = Err("Failed to identify package archive URL."))
        /\ (DecisiveIndexes # {} =>
               LET e == ReleaseList[FirstDecisive]
               IN IF IsMalformed(e) THEN ret = Err("Failed to parse package version.")
                  ELSE IF e.f.url.j # "string"
                  THEN ret = Err("Failed to parse package archive URL.")
                  ELSE ret = UrlParse(e.f.url.s))
        /\ (SourceIndexes # {} =>
               (ret.t = "err" <=>
                   \/ \E i \in 1..(FirstSource - 1) : IsMalformed(ReleaseList[i])
                   \/ ~HasDownloadUrl(ReleaseList[FirstSource])))

\* C10's case: an entry with no python_version before a source entry.
C10_Witness ==
    /\ ArchiveRan
    /\ ReleaseList =
         <<JObject([python_version |-> JNull, url |-> JString(SDIST_URL)]),
           JObject([python_version |-> JString("source"), url |-> JString(SDIST_URL)])>>
    /\ ret = Err("Failed to parse package version.")

====
